---------------------------- MODULE Spec2Model ----------------------------
(***************************************************************************)
(* Localization Management API: translation keys and their per-language    *)
(* translations, kept in a remote record store.                            *)
(*                                                                         *)
(* Strings are sequences of one-character strings, so that str.strip() is  *)
(* computed and not assumed.  Python's None is the one-element sequence    *)
(* <<"None">>, which no string of single characters equals.                *)
(***************************************************************************)
EXTENDS Naturals, Sequences, FiniteSets, TLC

VARIABLES
    db,     \* the record store: tables translation_keys and translations
    last,   \* the last completed HTTP exchange (request and response)
    nreq,   \* number of requests served so far
    procs   \* the requests in flight at once, each at one of its store calls

vars == <<db, last, nreq, procs>>

-----------------------------------------------------------------------------
(* Bounds of the model *)

MaxRequests == 1
MaxKeyIds == 2
MaxBatch == 2
MaxRows == 2
MaxProcs == 2

-----------------------------------------------------------------------------
(* Values *)

None == <<"None">>
Blank == <<>>
Space == <<" ">>

IsWhitespace(c) == c = " "

RECURSIVE lstrip(_)
lstrip(s) ==
    IF s # <<>> /\ IsWhitespace(Head(s)) THEN lstrip(Tail(s)) ELSE s

RECURSIVE rstrip(_)
rstrip(s) ==
    IF s # <<>> /\ IsWhitespace(s[Len(s)])
    THEN rstrip(SubSeq(s, 1, Len(s) - 1))
    ELSE s

\* str.strip()
strip(s) == rstrip(lstrip(s))

\* Python truthiness of an Optional[str]: None and '' are falsy
Truthy(s) == s # None /\ s # <<>>

KeyStrs == {<<"a">>, <<"b">>}
Descriptions == {<<"d">>}
LangCodes == {"en", "es", "pt"}

\* identifiers a request can name: every id the store can have issued, and
\* one it never issues
KeyIds == 1..(MaxKeyIds + 1)

-----------------------------------------------------------------------------
(* Record Store Client: select / insert / update / delete / upsert on the   *)
(* two tables, with the schema's constraints (unique key, translations      *)
(* owned by their key and removed with it).                                 *)

EmptyDb == [translation_keys |-> {}, translations |-> {}, next_id |-> 1]

\* select(table).eq(col, val)
StoreSelectEq(table, col, val) == {r \in table : r[col] = val}

\* a table without the unique index
KeyUniqueNoIndex(table) == TRUE

\* the unique index on translation_keys.key
KeyUnique(table) ==
    \A r1, r2 \in table : r1.key = r2.key => r1 = r2

\* insert(row) into translation_keys: the store assigns the id
StoreInsertKey(d, vals) ==
    LET row == [id |-> d.next_id, key |-> vals.key,
                category |-> vals.category, description |-> vals.description]
        table == d.translation_keys \cup {row}
    IN IF KeyUnique(table)
       THEN [ok |-> TRUE, data |-> {row},
             db |-> [d EXCEPT !.translation_keys = table, !.next_id = @ + 1]]
       ELSE [ok |-> FALSE, data |-> {}, db |-> d]

ApplyPatch(r, patch) ==
    [c \in DOMAIN r |-> IF c \in DOMAIN patch THEN patch[c] ELSE r[c]]

\* update(patch).eq("id", id) on translation_keys. An empty patch is not a
\* statement the store defines: echo says whether it answers with the rows
\* matched or with none.
StoreUpdateKey(d, patch, id, echo) ==
    LET matched == StoreSelectEq(d.translation_keys, "id", id)
        changed == {ApplyPatch(r, patch) : r \in matched}
        table == (d.translation_keys \ matched) \cup changed
    IN IF DOMAIN patch = {}
       THEN [ok |-> TRUE, data |-> IF echo THEN matched ELSE {}, db |-> d]
       ELSE IF KeyUnique(table)
       THEN [ok |-> TRUE, data |-> changed,
             db |-> [d EXCEPT !.translation_keys = table]]
       ELSE [ok |-> FALSE, data |-> {}, db |-> d]

\* delete().eq("id", id) on translation_keys; the translations of the key
\* go with it
StoreDeleteKey(d, id) ==
    [ok |-> TRUE,
     db |-> [d EXCEPT
        !.translation_keys = {r \in @ : r.id # id},
        !.translations = {t \in @ : t.translation_key_id # id}]]

\* the generated id of a new translations row: one no row of the table has
FreshId(table) ==
    CHOOSE i \in 1..(Cardinality(table) + 1) :
        /\ \A r \in table : r.id # i
        /\ \A j \in 1..(i - 1) : \E r \in table : r.id = j

\* the rows of the table that conflict with row on the conflict columns
Conflicting(table, row, conflict_columns) ==
    {e \in table : \A c \in conflict_columns : c \in DOMAIN row /\ e[c] = row[c]}

UpsertRow(table, row, conflict_columns) ==
    LET matched == Conflicting(table, row, conflict_columns)
    IN IF matched # {}
       THEN (table \ matched) \cup {ApplyPatch(e, row) : e \in matched}
       ELSE table \cup {[id |-> FreshId(table),
                         translation_key_id |-> row.translation_key_id,
                         language_code |-> row.language_code,
                         value |-> row.value,
                         updated_by |-> row.updated_by]}

RECURSIVE UpsertRows(_, _, _, _)
UpsertRows(table, rows, i, conflict_columns) ==
    IF i > Len(rows) THEN table
    ELSE UpsertRows(UpsertRow(table, rows[i], conflict_columns), rows, i + 1,
                    conflict_columns)

\* two rows of one batch meet on the conflict columns
BatchRepeats(rows, conflict_columns) ==
    \E i, j \in 1..Len(rows) :
        /\ i < j
        /\ \A c \in conflict_columns :
              c \in DOMAIN rows[i] /\ c \in DOMAIN rows[j] /\ rows[i][c] = rows[j][c]

\* what the store does with a batch that names one conflict target twice:
\* it applies the rows in order, or it rejects the statement
BatchModes == {"in_order", "reject"}

\* the upsert of a table whose rows reference no other table
StoreUpsertTranslationsNoReference(d, rows, conflict_columns, mode) ==
    IF mode = "reject" /\ BatchRepeats(rows, conflict_columns)
    THEN [ok |-> FALSE, data |-> {}, db |-> d]
    ELSE LET table == UpsertRows(d.translations, rows, 1, conflict_columns)
         IN [ok |-> TRUE,
             data |-> {e \in table : \E i \in 1..Len(rows) :
                          /\ e.translation_key_id = rows[i].translation_key_id
                          /\ e.language_code = rows[i].language_code},
             db |-> [d EXCEPT !.translations = table]]

\* upsert(rows, on_conflict) on translations. Every row must reference an
\* existing translation key; a statement that fails changes nothing.
StoreUpsertTranslations(d, rows, conflict_columns, mode) ==
    LET owned == \A i \in 1..Len(rows) :
                    StoreSelectEq(d.translation_keys, "id",
                                  rows[i].translation_key_id) # {}
        rejected == mode = "reject" /\ BatchRepeats(rows, conflict_columns)
        table == UpsertRows(d.translations, rows, 1, conflict_columns)
        written == {e \in table : \E i \in 1..Len(rows) :
                       /\ e.translation_key_id = rows[i].translation_key_id
                       /\ e.language_code = rows[i].language_code}
    IN IF owned /\ ~rejected
       THEN [ok |-> TRUE, data |-> written, db |-> [d EXCEPT !.translations = table]]
       ELSE [ok |-> FALSE, data |-> {}, db |-> d]

-----------------------------------------------------------------------------
(* DatabaseService *)

\* a TranslationKey as the service returns it: the row and the translations
\* of the key, by language
TranslationsOf(d, id) == StoreSelectEq(d.translations, "translation_key_id", id)

Entity(d, row) ==
    [id |-> row.id, key |-> row.key, category |-> row.category,
     description |-> row.description, translations |-> TranslationsOf(d, row.id)]

NotFound == [id |-> 0]

First(rows) == CHOOSE r \in rows : \A q \in rows : r.id <= q.id

\* every key whatever the category asked for
db_get_translation_keys_unfiltered(d, category) ==
    {Entity(d, r) : r \in d.translation_keys}

db_get_translation_keys(d, category) ==
    LET rows == IF Truthy(category)
                THEN StoreSelectEq(d.translation_keys, "category", category)
                ELSE d.translation_keys
    IN {Entity(d, r) : r \in rows}

db_get_translation_key(d, key_id) ==
    LET rows == StoreSelectEq(d.translation_keys, "id", key_id)
    IN IF rows # {} THEN Entity(d, First(rows)) ELSE NotFound

db_get_translation_key_by_key(d, key) ==
    LET rows == StoreSelectEq(d.translation_keys, "key", key)
    IN IF rows # {} THEN Entity(d, First(rows)) ELSE NotFound

\* create that leaves the description out of the inserted row
db_create_translation_key_no_description(d, translation_key) ==
    LET r == StoreInsertKey(d, [translation_key EXCEPT !.description = None])
    IN IF r.ok /\ r.data # {}
       THEN [ok |-> TRUE, value |-> Entity(EmptyDb, First(r.data)), db |-> r.db]
       ELSE [ok |-> FALSE, value |-> NotFound, db |-> r.db]

\* create that takes the insert to have succeeded whatever the store answered
db_create_translation_key_unchecked(d, translation_key) ==
    LET r == StoreInsertKey(d, translation_key)
    IN [ok |-> TRUE,
        value |-> IF r.data # {} THEN Entity(EmptyDb, First(r.data)) ELSE NotFound,
        db |-> r.db]

db_create_translation_key(d, translation_key) ==
    LET r == StoreInsertKey(d, translation_key)
    IN IF r.ok /\ r.data # {}
       THEN [ok |-> TRUE, value |-> Entity(EmptyDb, First(r.data)), db |-> r.db]
       ELSE [ok |-> FALSE, value |-> NotFound, db |-> r.db]

\* every field is sent, None or not
UpdateDictWithNone(update_data) == update_data

\* only the fields that are not None are sent
UpdateDict(update_data) ==
    LET cols == {c \in DOMAIN update_data : update_data[c] # None}
    IN [c \in cols |-> update_data[c]]

db_update_translation_key(d, key_id, update_data, echo) ==
    LET r == StoreUpdateKey(d, UpdateDict(update_data), key_id, echo)
    IN IF ~r.ok THEN [ok |-> FALSE, value |-> NotFound, db |-> r.db]
       ELSE IF r.data # {}
       THEN [ok |-> TRUE, value |-> Entity(EmptyDb, First(r.data)), db |-> r.db]
       ELSE [ok |-> TRUE, value |-> NotFound, db |-> r.db]

\* delete that issues no statement
db_delete_translation_key_no_statement(d, key_id) ==
    [ok |-> TRUE, value |-> TRUE, db |-> d]

db_delete_translation_key(d, key_id) ==
    LET r == StoreDeleteKey(d, key_id)
    IN [ok |-> r.ok, value |-> TRUE, db |-> r.db]

db_get_translations_for_key(d, key_id) ==
    StoreSelectEq(d.translations, "translation_key_id", key_id)

db_get_translation(d, key_id, language_code) ==
    LET rows == StoreSelectEq(
                    StoreSelectEq(d.translations, "translation_key_id", key_id),
                    "language_code", language_code)
    IN IF rows # {} THEN First(rows) ELSE NotFound

\* upsert that resolves conflicts on the primary key only
OnConflictId == {"id"}

\* on_conflict="translation_key_id,language_code"
OnConflict == {"translation_key_id", "language_code"}

\* upsert that keeps the language of the body
db_upsert_translation_body_language(d, key_id, language_code, translation_data) ==
    LET data == [translation_key_id |-> key_id,
                 language_code |-> translation_data.language_code,
                 value |-> translation_data.value,
                 updated_by |-> translation_data.updated_by]
        r == StoreUpsertTranslations(d, <<data>>, {"translation_key_id", "language_code"},
                                     "in_order")
    IN IF r.ok /\ r.data # {}
       THEN [ok |-> TRUE, value |-> First(r.data), db |-> r.db]
       ELSE [ok |-> FALSE, value |-> NotFound, db |-> r.db]

\* the body's fields, with the key and the language of the call put over them
db_upsert_translation(d, key_id, language_code, translation_data) ==
    LET data == [translation_key_id |-> key_id,
                 language_code |-> language_code,
                 value |-> translation_data.value,
                 updated_by |-> translation_data.updated_by]
        r == StoreUpsertTranslations(d, <<data>>, OnConflict, "in_order")
    IN IF r.ok /\ r.data # {}
       THEN [ok |-> TRUE, value |-> First(r.data), db |-> r.db]
       ELSE [ok |-> FALSE, value |-> NotFound, db |-> r.db]

\* bulk update that sends the first command only
db_bulk_update_translations_first_only(d, updates, mode) ==
    LET upsert_data == [i \in 1..(IF updates = <<>> THEN 0 ELSE 1) |->
                           [translation_key_id |-> updates[i].translation_key_id,
                            language_code |-> updates[i].language_code,
                            value |-> updates[i].value,
                            updated_by |-> updates[i].updated_by]]
        r == StoreUpsertTranslations(d, upsert_data, OnConflict, mode)
    IN [ok |-> r.ok, value |-> TRUE, db |-> r.db]

db_bulk_update_translations(d, updates, mode) ==
    LET upsert_data == [i \in 1..Len(updates) |->
                           [translation_key_id |-> updates[i].translation_key_id,
                            language_code |-> updates[i].language_code,
                            value |-> updates[i].value,
                            updated_by |-> updates[i].updated_by]]
        r == StoreUpsertTranslations(d, upsert_data, OnConflict, mode)
    IN [ok |-> r.ok, value |-> TRUE, db |-> r.db]

\* the characters of the model, in the order of their code points
Chars == <<" ", "A", "B", "_", "a", "b", "d", "v", "w", "x", "y">>

CharRank(c) == CHOOSE i \in 1..Len(Chars) : Chars[i] = c

\* str < str of Python: by code points, a proper prefix first
RECURSIVE StrLess(_, _)
StrLess(s, t) ==
    IF t = <<>> THEN FALSE
    ELSE IF s = <<>> THEN TRUE
    ELSE IF Head(s) = Head(t) THEN StrLess(Tail(s), Tail(t))
    ELSE CharRank(Head(s)) < CharRank(Head(t))

\* sorted(strings)
RECURSIVE sorted(_)
sorted(strs) ==
    IF strs = {} THEN <<>>
    ELSE LET least == CHOOSE m \in strs : \A o \in strs : o = m \/ StrLess(m, o)
         IN <<least>> \o sorted(strs \ {least})

\* the rows of a table as the store lists them
RECURSIVE RowsById(_)
RowsById(table) ==
    IF table = {} THEN <<>>
    ELSE <<First(table)>> \o RowsById(table \ {First(table)})

\* the categories of the rows as listed, neither deduplicated nor sorted
db_get_categories_as_listed(d) ==
    [i \in 1..Cardinality(d.translation_keys) |->
        RowsById(d.translation_keys)[i].category]

db_get_categories(d) ==
    sorted({item.category : item \in d.translation_keys})

\* lower case, as ILIKE folds it
Lower(c) == CASE c = "A" -> "a" [] c = "B" -> "b" [] OTHER -> c

\* string ILIKE pattern: % stands for any characters, _ for any one
RECURSIVE ILike(_, _)
ILike(str, pattern) ==
    IF pattern = <<>> THEN str = <<>>
    ELSE IF Head(pattern) = "%"
    THEN ILike(str, Tail(pattern)) \/ (str # <<>> /\ ILike(Tail(str), pattern))
    ELSE /\ str # <<>>
         /\ Head(pattern) = "_" \/ Lower(Head(pattern)) = Lower(Head(str))
         /\ ILike(Tail(str), Tail(pattern))

\* or_(key.ilike.%term%, description.ilike.%term%): a NULL description
\* matches nothing
db_search_translation_keys(d, search_term) ==
    LET pattern == <<"%">> \o search_term \o <<"%">>
    IN {Entity(d, r) : r \in {q \in d.translation_keys :
           \/ ILike(q.key, pattern)
           \/ q.description # None /\ ILike(q.description, pattern)}}

-----------------------------------------------------------------------------
(* Endpoints: each request handler as a function of the store, giving the   *)
(* response and the store it leaves.                                        *)

Response(status, detail, body, d) ==
    [status |-> status, detail |-> detail, body |-> body, db |-> d]

\* a response with the calls of the service that the handler made
WithCalls(resp, calls) ==
    [f \in DOMAIN resp \cup {"calls"} |-> IF f = "calls" THEN calls ELSE resp[f]]

\* create without the lookup of the key string
create_translation_key_handler_no_lookup(d, translation_key) ==
    LET r == db_create_translation_key(d, translation_key)
    IN IF r.ok THEN Response(200, "", r.value, r.db)
       ELSE Response(500, "Failed to create translation key", NotFound, r.db)

\* POST /translation-keys
create_translation_key_handler(d, translation_key) ==
    LET existing_key == db_get_translation_key_by_key(d, translation_key.key)
    IN IF existing_key # NotFound
       THEN Response(400, "Translation key already exists", NotFound, d)
       ELSE LET r == db_create_translation_key(d, translation_key)
            IN IF r.ok THEN Response(200, "", r.value, r.db)
               ELSE Response(500, "Failed to create translation key", NotFound, r.db)

\* update that answers whatever the service returned
update_translation_key_handler_no_check(d, key_id, update_data, echo) ==
    LET r == db_update_translation_key(d, key_id, update_data, echo)
    IN IF ~r.ok
       THEN Response(500, "Failed to update translation key", NotFound, r.db)
       ELSE Response(200, "", r.value, r.db)

\* PUT /translation-keys/{key_id}
update_translation_key_handler(d, key_id, update_data, echo) ==
    LET r == db_update_translation_key(d, key_id, update_data, echo)
    IN IF ~r.ok
       THEN Response(500, "Failed to update translation key", NotFound, r.db)
       ELSE IF r.value = NotFound
       THEN Response(404, "Translation key not found", NotFound, r.db)
       ELSE Response(200, "", r.value, r.db)

\* delete without the lookup of the key
delete_translation_key_handler_no_lookup(d, key_id) ==
    LET r == db_delete_translation_key(d, key_id)
    IN WithCalls(
         IF r.value
         THEN Response(200, "Translation key deleted successfully", NotFound, r.db)
         ELSE Response(500, "Failed to delete translation key", NotFound, r.db),
         {"delete_translation_key"})

\* DELETE /translation-keys/{key_id}
delete_translation_key_handler(d, key_id) ==
    LET existing_key == db_get_translation_key(d, key_id)
    IN IF existing_key = NotFound
       THEN WithCalls(Response(404, "Translation key not found", NotFound, d),
                      {"get_translation_key"})
       ELSE LET r == db_delete_translation_key(d, key_id)
            IN WithCalls(
                 IF r.value
                 THEN Response(200, "Translation key deleted successfully",
                               NotFound, r.db)
                 ELSE Response(500, "Failed to delete translation key",
                               NotFound, r.db),
                 {"get_translation_key", "delete_translation_key"})

\* PUT /translation-keys/{key_id}/translations/{locale}
upsert_translation_handler(d, key_id, locale, translation_data) ==
    LET translation_key == db_get_translation_key(d, key_id)
    IN IF translation_key = NotFound
       THEN Response(404, "Translation key not found", NotFound, d)
       ELSE LET r == db_upsert_translation(d, key_id, locale, translation_data)
            IN IF r.ok THEN Response(200, "", r.value, r.db)
               ELSE Response(500, "Failed to upsert translation", NotFound, r.db)

\* POST that does not look for the translation of the pair
create_translation_handler_no_lookup(d, key_id, locale, translation_data) ==
    LET translation_key == db_get_translation_key(d, key_id)
    IN IF translation_key = NotFound
       THEN Response(404, "Translation key not found", NotFound, d)
       ELSE LET r == db_upsert_translation(d, key_id, locale, translation_data)
            IN IF r.ok THEN Response(200, "", r.value, r.db)
               ELSE Response(500, "Failed to create translation", NotFound, r.db)

\* POST /translation-keys/{key_id}/translations/{locale}
create_translation_handler(d, key_id, locale, translation_data) ==
    LET translation_key == db_get_translation_key(d, key_id)
        existing_translation == db_get_translation(d, key_id, locale)
    IN IF translation_key = NotFound
       THEN Response(404, "Translation key not found", NotFound, d)
       ELSE IF existing_translation # NotFound
       THEN Response(400, "Translation already exists for this language", NotFound, d)
       ELSE LET r == db_upsert_translation(d, key_id, locale, translation_data)
            IN IF r.ok THEN Response(200, "", r.value, r.db)
               ELSE Response(500, "Failed to create translation", NotFound, r.db)

\* the key ids of a batch that the store does not hold
MissingKeyIds(d, updates) ==
    {updates[i].translation_key_id : i \in 1..Len(updates)}
        \ {r.id : r \in d.translation_keys}

\* bulk update without the check of the batch's key ids
bulk_update_translations_handler_no_validation(d, updates, missing, mode) ==
    IF updates = <<>>
    THEN WithCalls(Response(400, "No updates provided", NotFound, d), {})
    ELSE LET r == db_bulk_update_translations(d, updates, mode)
         IN WithCalls(
              IF ~r.ok
              THEN Response(500, "Failed to bulk update translations", NotFound, r.db)
              ELSE Response(200, "Successfully updated translations",
                            [updated_count |-> Len(updates)], r.db),
              {"bulk_update_translations"})

\* bulk update without the check for an empty batch
bulk_update_translations_handler_no_empty_check(d, updates, missing, mode) ==
    IF missing # 0
    THEN WithCalls(Response(404, "Translation key with ID not found",
                            [id |-> missing], d), {"get_translation_key"})
    ELSE LET r == db_bulk_update_translations(d, updates, mode)
         IN WithCalls(
              IF ~r.ok
              THEN Response(500, "Failed to bulk update translations", NotFound, r.db)
              ELSE Response(200, "Successfully updated translations",
                            [updated_count |-> Len(updates)], r.db),
              {"get_translation_key", "bulk_update_translations"})

\* PUT /translation-keys/bulk. The ids are checked in the iteration order of
\* a set: missing is the first missing one met, 0 when there is none.
bulk_update_translations_handler(d, updates, missing, mode) ==
    IF updates = <<>>
    THEN WithCalls(Response(400, "No updates provided", NotFound, d), {})
    ELSE IF missing # 0
    THEN WithCalls(Response(404, "Translation key with ID not found",
                            [id |-> missing], d), {"get_translation_key"})
    ELSE LET r == db_bulk_update_translations(d, updates, mode)
         IN WithCalls(
              IF ~r.ok
              THEN Response(500, "Failed to bulk update translations", NotFound, r.db)
              ELSE IF r.value
              THEN Response(200, "Successfully updated translations",
                            [updated_count |-> Len(updates)], r.db)
              ELSE Response(500, "Failed to perform bulk update", NotFound, r.db),
              {"get_translation_key", "bulk_update_translations"})

\* GET /translation-keys
get_translation_keys_handler(d, category, search) ==
    IF Truthy(search)
    THEN Response(200, "", db_search_translation_keys(d, search), d)
    ELSE Response(200, "", db_get_translation_keys(d, category), d)

\* GET /localizations/{project_id}/{locale}: key.translations is typed as a
\* mapping from language code, so the inner loop runs over language codes,
\* which are str and have no attribute language_code
get_localizations_handler(d, project_id, locale) ==
    LET translation_keys == db_get_translation_keys(d, None)
        iterated == UNION {{translation.language_code :
                               translation \in key.translations} :
                           key \in translation_keys}
    IN IF iterated # {}
       THEN Response(500, "Failed to fetch localizations", <<>>, d)
       ELSE Response(200, "",
                     [project_id |-> project_id, locale |-> locale,
                      localizations |-> {}], d)

\* GET /categories
get_categories_handler(d) == Response(200, "", db_get_categories(d), d)

-----------------------------------------------------------------------------
(* POST /translation-keys/bulk/csv *)

\* csv.DictReader over csv_data: the first line gives the field names, blank
\* lines are skipped, and a line shorter than the header leaves its missing
\* fields None
ColumnIndex(fieldnames, c) == CHOOSE j \in 1..Len(fieldnames) : fieldnames[j] = c

DictRow(fieldnames, values) ==
    [c \in {fieldnames[j] : j \in 1..Len(fieldnames)} |->
        IF ColumnIndex(fieldnames, c) <= Len(values)
        THEN values[ColumnIndex(fieldnames, c)]
        ELSE None]

IsDataLine(values) == values # <<>>

DictReader(csv_data) ==
    LET data == SelectSeq(csv_data.lines, IsDataLine)
    IN [n \in 1..Len(data) |-> DictRow(csv_data.fieldnames, data[n])]

\* row.get(col, default)
RowGet(row, col, default) == IF col \in DOMAIN row THEN row[col] ELSE default

\* for lang_code in ['en', 'es', 'pt']
CsvLangs == <<"en", "es", "pt">>

\* staging that takes the blank cells too
RECURSIVE StageLangsBlankToo(_, _, _, _, _)
StageLangsBlankToo(row, key_id, updated_by, i, staged) ==
    IF i > Len(CsvLangs) THEN [ok |-> TRUE, staged |-> staged]
    ELSE LET cell == RowGet(row, CsvLangs[i], Blank)
         IN IF cell = None
            THEN [ok |-> FALSE, staged |-> staged]
            ELSE StageLangsBlankToo(row, key_id, updated_by, i + 1,
                    Append(staged, [translation_key_id |-> key_id,
                                    language_code |-> CsvLangs[i],
                                    value |-> strip(cell),
                                    updated_by |-> updated_by]))

RECURSIVE StageLangs(_, _, _, _, _)
StageLangs(row, key_id, updated_by, i, staged) ==
    IF i > Len(CsvLangs) THEN [ok |-> TRUE, staged |-> staged]
    ELSE LET cell == RowGet(row, CsvLangs[i], Blank)
         IN IF cell = None
            THEN [ok |-> FALSE, staged |-> staged]
            ELSE StageLangs(row, key_id, updated_by, i + 1,
                    IF Truthy(strip(cell))
                    THEN Append(staged, [translation_key_id |-> key_id,
                                         language_code |-> CsvLangs[i],
                                         value |-> strip(cell),
                                         updated_by |-> updated_by])
                    ELSE staged)

\* the import in progress: the store, the counters, the staged updates, the
\* row that raised (0 when none has) and the service calls made, by row
ImportStart(d) ==
    [db |-> d, created_keys |-> 0, updated_keys |-> 0,
     translation_updates |-> <<>>, failed_row |-> 0, cause |-> "", calls |-> <<>>]

RowFails(st, row_num, cause) ==
    [st EXCEPT !.failed_row = row_num, !.cause = cause]

Called(st, row_num, call) ==
    [st EXCEPT !.calls = Append(@, [row |-> row_num, call |-> call])]

RowStages(st, row, row_num, key_id, updated_by) ==
    LET r == StageLangs(row, key_id, updated_by, 1, st.translation_updates)
    IN IF r.ok THEN [st EXCEPT !.translation_updates = r.staged]
       ELSE RowFails(st, row_num, "NoneType has no attribute strip")

\* the required-field check of a row
RowIsValid(row) ==
    Truthy(RowGet(row, "key", None)) /\ Truthy(RowGet(row, "category", None))

\* the body of the loop from the answer of the lookup on: create the key
\* or update it, and stage the translations of the row
\* a row that updates the key it finds whether or not the row differs from it
ImportRowFound_without_comparison(st, row, row_num, updated_by, existing_key) ==
    LET key == strip(row["key"])
        category == strip(row["category"])
        stripped == strip(RowGet(row, "description", Blank))
        description == IF Truthy(stripped) THEN stripped ELSE None
    IN IF existing_key = NotFound
       THEN LET r == db_create_translation_key(st.db,
                        [key |-> key, category |-> category,
                         description |-> description])
                made == Called(st, row_num, "create_translation_key")
            IN IF ~r.ok
               THEN RowFails([made EXCEPT !.db = r.db], row_num,
                             "Failed to create translation key")
               ELSE RowStages([made EXCEPT !.db = r.db, !.created_keys = @ + 1],
                              row, row_num, r.value.id, updated_by)
       ELSE IF TRUE
       THEN LET r == db_update_translation_key(st.db, existing_key.id,
                        [key |-> None, category |-> category,
                         description |-> description], TRUE)
                made == Called(st, row_num, "update_translation_key")
            IN IF ~r.ok
               THEN RowFails([made EXCEPT !.db = r.db], row_num,
                             "Failed to update translation key")
               ELSE RowStages([made EXCEPT !.db = r.db, !.updated_keys = @ + 1],
                              row, row_num, existing_key.id, updated_by)
       ELSE RowStages(st, row, row_num, existing_key.id, updated_by)

\* a row whose update of the key it finds is not counted
ImportRowFound_updates_uncounted(st, row, row_num, updated_by, existing_key) ==
    LET key == strip(row["key"])
        category == strip(row["category"])
        stripped == strip(RowGet(row, "description", Blank))
        description == IF Truthy(stripped) THEN stripped ELSE None
    IN IF existing_key = NotFound
       THEN LET r == db_create_translation_key(st.db,
                        [key |-> key, category |-> category,
                         description |-> description])
                made == Called(st, row_num, "create_translation_key")
            IN IF ~r.ok
               THEN RowFails([made EXCEPT !.db = r.db], row_num,
                             "Failed to create translation key")
               ELSE RowStages([made EXCEPT !.db = r.db, !.created_keys = @ + 1],
                              row, row_num, r.value.id, updated_by)
       ELSE IF existing_key.category # category
               \/ existing_key.description # description
       THEN LET r == db_update_translation_key(st.db, existing_key.id,
                        [key |-> None, category |-> category,
                         description |-> description], TRUE)
                made == Called(st, row_num, "update_translation_key")
            IN IF ~r.ok
               THEN RowFails([made EXCEPT !.db = r.db], row_num,
                             "Failed to update translation key")
               ELSE RowStages([made EXCEPT !.db = r.db],
                              row, row_num, existing_key.id, updated_by)
       ELSE RowStages(st, row, row_num, existing_key.id, updated_by)

ImportRowFound(st, row, row_num, updated_by, existing_key) ==
    LET key == strip(row["key"])
        category == strip(row["category"])
        stripped == strip(RowGet(row, "description", Blank))
        description == IF Truthy(stripped) THEN stripped ELSE None
    IN IF existing_key = NotFound
       THEN LET r == db_create_translation_key(st.db,
                        [key |-> key, category |-> category,
                         description |-> description])
                made == Called(st, row_num, "create_translation_key")
            IN IF ~r.ok
               THEN RowFails([made EXCEPT !.db = r.db], row_num,
                             "Failed to create translation key")
               ELSE RowStages([made EXCEPT !.db = r.db, !.created_keys = @ + 1],
                              row, row_num, r.value.id, updated_by)
       ELSE IF existing_key.category # category
               \/ existing_key.description # description
       THEN LET r == db_update_translation_key(st.db, existing_key.id,
                        [key |-> None, category |-> category,
                         description |-> description], TRUE)
                made == Called(st, row_num, "update_translation_key")
            IN IF ~r.ok
               THEN RowFails([made EXCEPT !.db = r.db], row_num,
                             "Failed to update translation key")
               ELSE RowStages([made EXCEPT !.db = r.db, !.updated_keys = @ + 1],
                              row, row_num, existing_key.id, updated_by)
       ELSE RowStages(st, row, row_num, existing_key.id, updated_by)

\* the body of the loop up to the lookup: the row is refused, or raises, or
\* is looked up
RowRaises(row) == RowGet(row, "description", Blank) = None

\* the body of the loop over the rows
ImportRow(st, row, row_num, updated_by) ==
    IF ~RowIsValid(row)
    THEN RowFails(st, row_num, "'key' and 'category' are required fields")
    ELSE IF RowRaises(row)
    THEN RowFails(st, row_num, "NoneType has no attribute strip")
    ELSE ImportRowFound(Called(st, row_num, "get_translation_key_by_key"),
                        row, row_num, updated_by,
                        db_get_translation_key_by_key(st.db, strip(row["key"])))

\* for row_num, row in enumerate(csv_reader, start=2): the first row that
\* raises ends the loop
RECURSIVE ImportRows(_, _, _, _)
ImportRows(st, rows, n, updated_by) ==
    IF n > Len(rows) \/ st.failed_row # 0 THEN st
    ELSE ImportRows(ImportRow(st, rows[n], n + 1, updated_by), rows, n + 1,
                    updated_by)

\* the loop over the rows of the request
ImportLoop(d, csv_request) ==
    ImportRows(ImportStart(d), DictReader(csv_request.csv_data), 1,
               csv_request.updated_by)

\* an import that upserts what it has staged even when a row raised
ImportFinishUpsertingAnyway(st, mode) ==
    LET r == IF st.translation_updates # <<>>
             THEN db_bulk_update_translations(st.db, st.translation_updates, mode)
             ELSE [ok |-> TRUE, value |-> TRUE, db |-> st.db]
        calls == IF st.translation_updates # <<>>
                 THEN Append(st.calls,
                          [row |-> 0, call |-> "bulk_update_translations"])
                 ELSE st.calls
    IN IF st.failed_row # 0
       THEN [status |-> 400, detail |-> "Error processing row",
             body |-> [row |-> st.failed_row, cause |-> st.cause],
             calls |-> calls, db |-> r.db]
       ELSE IF ~r.ok \/ ~r.value
       THEN [status |-> 500, detail |-> "Failed to update translations",
             body |-> NotFound, calls |-> calls, db |-> r.db]
       ELSE [status |-> 200, detail |-> "CSV import completed successfully",
             body |-> [created_keys |-> st.created_keys,
                       updated_keys |-> st.updated_keys,
                       translations_updated |-> Len(st.translation_updates),
                       total_rows_processed |->
                           st.created_keys + st.updated_keys],
             calls |-> calls, db |-> r.db]

\* what follows the loop: the bulk upsert of the staged updates and the
\* response
ImportFinish(st, mode) ==
    IF st.failed_row # 0
       THEN [status |-> 400, detail |-> "Error processing row",
             body |-> [row |-> st.failed_row, cause |-> st.cause],
             calls |-> st.calls, db |-> st.db]
       ELSE LET r == IF st.translation_updates # <<>>
                     THEN db_bulk_update_translations(st.db,
                              st.translation_updates, mode)
                     ELSE [ok |-> TRUE, value |-> TRUE, db |-> st.db]
                calls == IF st.translation_updates # <<>>
                         THEN Append(st.calls,
                                  [row |-> 0, call |-> "bulk_update_translations"])
                         ELSE st.calls
            IN IF ~r.ok
               THEN [status |-> 500, detail |-> "Failed to import CSV",
                     body |-> NotFound, calls |-> calls, db |-> r.db]
               ELSE IF ~r.value
               THEN [status |-> 500, detail |-> "Failed to update translations",
                     body |-> NotFound, calls |-> calls, db |-> r.db]
               ELSE [status |-> 200, detail |-> "CSV import completed successfully",
                     body |-> [created_keys |-> st.created_keys,
                               updated_keys |-> st.updated_keys,
                               translations_updated |-> Len(st.translation_updates),
                               total_rows_processed |->
                                   st.created_keys + st.updated_keys],
                     calls |-> calls, db |-> r.db]

\* the modes in which the store can answer a batch
ModesFor(rows) ==
    IF BatchRepeats(rows, OnConflict) THEN BatchModes ELSE {"in_order"}

-----------------------------------------------------------------------------
(* Requests *)

KeyCreates ==
    [key : KeyStrs, category : {<<"x">>}, description : Descriptions \cup {None}]

KeyUpdates ==
    [key : {<<"b">>, None}, category : {<<"y">>, None},
     description : Descriptions \cup {None}]

\* the locales and bodies of the single-translation requests
Locales == {"en", "es"}

Writes == {[value |-> <<"v">>, updated_by |-> "u1"],
           [value |-> <<"w">>, updated_by |-> "u2"]}

TranslationCreates ==
    {[language_code |-> "en", value |-> w.value, updated_by |-> w.updated_by] :
        w \in Writes}

SeqsUpTo(S, n) == UNION {[1..m -> S] : m \in 0..n}

BulkTranslationUpdates ==
    {[translation_key_id |-> k, language_code |-> l,
      value |-> w.value, updated_by |-> w.updated_by] :
        k \in KeyIds, l \in Locales, w \in Writes}

BulkUpdateRequests == SeqsUpTo(BulkTranslationUpdates, MaxBatch)

\* the batches of the specification of all the requests: a few commands only
FewBulkTranslationUpdates ==
    {[translation_key_id |-> 1, language_code |-> "en",
      value |-> <<"v">>, updated_by |-> "u1"],
     [translation_key_id |-> 1, language_code |-> "en",
      value |-> <<"w">>, updated_by |-> "u2"],
     [translation_key_id |-> MaxKeyIds + 1, language_code |-> "en",
      value |-> <<"v">>, updated_by |-> "u1"]}

FewBulkUpdateRequests == SeqsUpTo(FewBulkTranslationUpdates, MaxBatch)

\* CSV texts: the header and the lines under it, each line its cells
Header6 == <<"key", "category", "description", "en", "es", "pt">>
Header3 == <<"key", "category", "en">>

LangCells == {<<<<"v">>, Space, Blank>>,
              <<<<" ", "w">>, Blank, <<"v">>>>}

FullLines ==
    {<<k, c, d>> \o l : k \in {<<"a">>, <<" ", "b">>},
                        c \in {<<"x">>, <<"y", " ">>},
                        d \in {Blank, <<"d">>},
                        l \in LangCells}

\* lines with a blank or whitespace-only required cell, lines shorter than
\* the header, and the blank line
EdgeLines ==
    {<<Blank, <<"x">>, Blank, <<"v">>, Blank, Blank>>,
     <<Space, <<"x">>, Blank, <<"v">>, Blank, Blank>>,
     <<<<"a">>, Blank, Blank, <<"v">>, Blank, Blank>>,
     <<<<"a">>, Space, Blank, <<"v">>, Blank, Blank>>,
     <<<<"a">>>>,
     <<<<"a">>, <<"x">>>>,
     <<<<"a">>, <<"x">>, <<"d">>, <<"v">>>>,
     <<<<"a">>, <<"x">>, <<"d">>, Blank, Blank, Blank>>,
     <<>>}

Lines6 == FullLines \cup EdgeLines

Lines3 == {<<<<"a">>, <<"x">>, <<"v">>>>, <<<<"a">>, <<"y">>, <<"w">>>>}

CsvTexts ==
    [fieldnames : {Header6}, lines : SeqsUpTo(Lines6, MaxRows)]
        \cup [fieldnames : {Header3}, lines : SeqsUpTo(Lines3, MaxRows)]

CsvRequests == [csv_data : CsvTexts, updated_by : {"bulk_import"}]

\* the imports of the specification of all the requests: a few lines only
FewLines ==
    {<<<<"a">>, <<"x">>, Blank, <<"v">>, Blank, Blank>>,
     <<<<"a">>, <<"y">>, <<"d">>, <<"w">>, Blank, <<"v">>>>,
     <<<<" ", "b">>, <<"x">>, Blank, Blank, <<"w">>, Blank>>}

FewCsvRequests ==
    [csv_data : [fieldnames : {Header6}, lines : SeqsUpTo(FewLines, MaxRows)],
     updated_by : {"bulk_import"}]

NoExchange ==
    [op |-> "none", req |-> <<>>, resp |-> [status |-> 0], pre |-> EmptyDb,
     before |-> [op |-> "none"]]

\* what a request is aimed at: the path of a single-translation request, the
\* whole request otherwise
Target(op, req) ==
    IF op \in {"upsert_translation", "create_translation"}
    THEN [key_id |-> req.key_id, locale |-> req.locale]
    ELSE req

\* the response without the store it left
Seen(resp) == [f \in DOMAIN resp \ {"db"} |-> resp[f]]

Exchange(op, req, resp, before) ==
    [op |-> op, req |-> req, resp |-> Seen(resp), pre |-> db, before |-> before]

\* the requests to choose from: after the recorded exchange, the request of
\* that exchange
Candidates(op, requests) ==
    IF last.op = op THEN {last.req} ELSE requests

\* whether a request can be served now: any request while nothing is
\* recorded; after the recorded exchange, one more of the same operation on
\* the same target
Admits(op, req) ==
    \/ last.op = "none"
    \/ /\ last.op # "none"
       /\ last.before.op = "none"
       /\ last.op = op
       /\ Target(op, req) = Target(last.op, last.req)

\* A request is served whole, one at a time. Up to MaxRequests requests go
\* by unrecorded; then one exchange is recorded, and the one after it.
Serve(op, req, resp) ==
    /\ resp.db.next_id <= MaxKeyIds + 1
    /\ db' = resp.db
    /\ UNCHANGED procs
    /\ \/ /\ last.op = "none"
          /\ nreq < MaxRequests
          /\ nreq' = nreq + 1
          /\ last' = NoExchange
       \/ /\ last.op = "none"
          /\ nreq' = nreq
          /\ last' = Exchange(op, req, resp, NoExchange)
       \/ /\ last.op # "none"
          /\ nreq' = nreq
          /\ last' = Exchange(op, req, resp, [last EXCEPT !.pre = EmptyDb])

create_translation_key ==
    \E translation_key \in KeyCreates :
        /\ Admits("create_translation_key", translation_key)
        /\ \E resp \in {create_translation_key_handler(db, translation_key)} :
              Serve("create_translation_key", translation_key, resp)

update_translation_key ==
    \E key_id \in KeyIds, update_data \in KeyUpdates :
        /\ Admits("update_translation_key",
                  [key_id |-> key_id, update_data |-> update_data])
        /\ \E echo \in (IF UpdateDict(update_data) = <<>> THEN BOOLEAN ELSE {TRUE}) :
           \E resp \in {update_translation_key_handler(db, key_id, update_data, echo)} :
              Serve("update_translation_key",
                    [key_id |-> key_id, update_data |-> update_data], resp)

delete_translation_key ==
    \E key_id \in KeyIds :
        /\ Admits("delete_translation_key", [key_id |-> key_id])
        /\ \E resp \in {delete_translation_key_handler(db, key_id)} :
              Serve("delete_translation_key", [key_id |-> key_id], resp)

upsert_translation ==
    \E key_id \in KeyIds, locale \in Locales, translation_data \in TranslationCreates :
        /\ Admits("upsert_translation", [key_id |-> key_id, locale |-> locale,
                                     translation_data |-> translation_data])
        /\ \E resp \in {upsert_translation_handler(db, key_id, locale, translation_data)} :
              Serve("upsert_translation", [key_id |-> key_id, locale |-> locale,
                                    translation_data |-> translation_data], resp)

create_translation ==
    \E key_id \in KeyIds, locale \in Locales, translation_data \in TranslationCreates :
        /\ Admits("create_translation", [key_id |-> key_id, locale |-> locale,
                                     translation_data |-> translation_data])
        /\ \E resp \in {create_translation_handler(db, key_id, locale, translation_data)} :
              Serve("create_translation", [key_id |-> key_id, locale |-> locale,
                                    translation_data |-> translation_data], resp)

bulk_update_translations(requests) ==
    \E request \in Candidates("bulk_update_translations",
                                {[updates |-> u] : u \in requests}) :
    \E updates \in {request.updates} :
        /\ Admits("bulk_update_translations", [updates |-> updates])
        /\ \E mode \in ModesFor(updates) :
           \E missing \in (IF MissingKeyIds(db, updates) = {} THEN {0}
                            ELSE MissingKeyIds(db, updates)) :
           \E resp \in {bulk_update_translations_handler(db, updates, missing, mode)} :
              Serve("bulk_update_translations", [updates |-> updates], resp)

bulk_import_from_csv(requests) ==
    \E csv_request \in Candidates("bulk_import_from_csv", requests) :
        /\ Admits("bulk_import_from_csv", csv_request)
        /\ \E st \in {ImportLoop(db, csv_request)} :
           \E mode \in ModesFor(st.translation_updates) :
           \E resp \in {ImportFinish(st, mode)} :
              Serve("bulk_import_from_csv", csv_request, resp)

\* a request slot with no request in it
Idle == [pc |-> "idle"]

Procs == 1..MaxProcs

Init ==
    /\ db = EmptyDb
    /\ last = NoExchange
    /\ nreq = 0
    /\ procs = [p \in Procs |-> Idle]

Next ==
    \/ create_translation_key
    \/ update_translation_key
    \/ delete_translation_key
    \/ upsert_translation
    \/ create_translation
    \/ bulk_update_translations(FewBulkUpdateRequests)
    \/ bulk_import_from_csv(FewCsvRequests)

Spec == Init /\ [][Next]_vars

-----------------------------------------------------------------------------
(* The imports, from stores that requests have left *)

SeedKeyA ==
    create_translation_key_handler(EmptyDb,
        [key |-> <<"a">>, category |-> <<"x">>, description |-> <<"d">>]).db

SeedKeyAEn ==
    upsert_translation_handler(SeedKeyA, 1, "en",
        [language_code |-> "en", value |-> <<"v">>, updated_by |-> "u1"]).db

SeedTwoKeys ==
    upsert_translation_handler(
        create_translation_key_handler(SeedKeyAEn,
            [key |-> <<"b">>, category |-> <<"y">>, description |-> None]).db,
        2, "pt", [language_code |-> "pt", value |-> <<"w">>, updated_by |-> "u2"]).db

SeedDbs == {EmptyDb, SeedKeyAEn, SeedTwoKeys}

InitSeeded ==
    /\ db \in SeedDbs
    /\ last = NoExchange
    /\ nreq = MaxRequests
    /\ procs = [p \in Procs |-> Idle]

NextCsv == bulk_import_from_csv(CsvRequests)

SpecCsv == InitSeeded /\ [][NextCsv]_vars

-----------------------------------------------------------------------------
(* The bulk updates, from stores that requests have left *)

NextBulk == bulk_update_translations(BulkUpdateRequests)

SpecBulk == InitSeeded /\ [][NextBulk]_vars

-----------------------------------------------------------------------------
(* The listings, from stores that requests have left *)

ReadCreates ==
    {[key |-> <<"a", "b">>, category |-> <<"x">>, description |-> None],
     [key |-> <<"B", "a">>, category |-> <<"B">>, description |-> <<"A", " ", "b">>],
     [key |-> <<"b">>, category |-> <<"x">>, description |-> <<"x", "a", "b">>],
     [key |-> <<"a", "_">>, category |-> <<"a">>, description |-> <<"d">>]}

\* the store after the creates of a sequence, and a translation for the
\* first key
RECURSIVE Created(_, _)
Created(d, creates) ==
    IF creates = <<>> THEN d
    ELSE Created(create_translation_key_handler(d, Head(creates)).db,
                 Tail(creates))

ReadDbs ==
    {upsert_translation_handler(Created(EmptyDb, creates), 1, "en",
         [language_code |-> "en", value |-> <<"v">>, updated_by |-> "u1"]).db :
        creates \in SeqsUpTo(ReadCreates, MaxKeyIds)}

SearchTerms ==
    {<<"a">>, <<"A", "B">>, <<"b", "a">>, <<"x">>, <<"a", "_">>, <<"_">>, <<"y">>}

ListRequests ==
    [category : {None, Blank, <<"x">>, <<"B">>, <<"y">>}, search : {None, Blank}]
        \cup [category : {None, <<"x">>}, search : SearchTerms]

get_translation_keys ==
    \E request \in ListRequests :
        /\ Admits("get_translation_keys", request)
        /\ \E resp \in {get_translation_keys_handler(db, request.category,
                                                     request.search)} :
              Serve("get_translation_keys", request, resp)

get_categories ==
    /\ Admits("get_categories", <<>>)
    /\ \E resp \in {get_categories_handler(db)} :
          Serve("get_categories", <<>>, resp)

get_localizations ==
    \E locale \in Locales :
        /\ Admits("get_localizations", [project_id |-> "p", locale |-> locale])
        /\ \E resp \in {get_localizations_handler(db, "p", locale)} :
              Serve("get_localizations",
                    [project_id |-> "p", locale |-> locale], resp)

InitRead ==
    /\ db \in ReadDbs
    /\ last = NoExchange
    /\ nreq = MaxRequests
    /\ procs = [p \in Procs |-> Idle]

NextRead == get_translation_keys \/ get_categories \/ get_localizations

SpecRead == InitRead /\ [][NextRead]_vars

-----------------------------------------------------------------------------
(* Requests in flight at once.  A handler is a coroutine that awaits each   *)
(* call of the store: between two calls of one request the calls of the     *)
(* others take place.  Each slot serves one request.                        *)

ConcUpserts ==
    {[op |-> "upsert_translation", key_id |-> 1, locale |-> "es",
      translation_data |-> [language_code |-> "es", value |-> <<"w">>,
                            updated_by |-> "u2"]],
     [op |-> "upsert_translation", key_id |-> 2, locale |-> "en",
      translation_data |-> [language_code |-> "en", value |-> <<"v">>,
                            updated_by |-> "u1"]]}

ConcCreates ==
    {[op |-> "create_translation", key_id |-> 1, locale |-> l,
      translation_data |-> [language_code |-> l, value |-> <<"w">>,
                            updated_by |-> "u2"]] : l \in {"en", "es"}}

ConcDeletes ==
    {[op |-> "delete_translation_key", key_id |-> k] : k \in 1..2}

ConcBulkUpdates ==
    {[op |-> "bulk_update_translations", updates |-> u] :
        u \in {<<[translation_key_id |-> 1, language_code |-> "en",
                  value |-> <<"w">>, updated_by |-> "u2"]>>,
               <<[translation_key_id |-> 1, language_code |-> "es",
                  value |-> <<"v">>, updated_by |-> "u1"],
                 [translation_key_id |-> 2, language_code |-> "pt",
                  value |-> <<"v">>, updated_by |-> "u1"]>>}}

ConcImports ==
    {[op |-> "bulk_import_from_csv",
      csv_request |-> [csv_data |-> [fieldnames |-> Header6, lines |-> ls],
                       updated_by |-> "bulk_import"]] :
        ls \in {<<<<<<"a">>, <<"y">>, Blank, <<"w">>, Blank, Blank>>>>,
                <<<<<<"a">>, <<"x">>, <<"d">>, <<"v">>, Blank, Blank>>,
                  <<<<"b">>, <<"y">>, Blank, Blank, <<"w">>, Blank>>>>}}

ConcRequests ==
    ConcUpserts \cup ConcCreates \cup ConcDeletes \cup ConcBulkUpdates
        \cup ConcImports

\* a request that has been answered
Done(req, status) == [pc |-> "done", req |-> req, status |-> status]

\* a request that has been answered after the creations of keys it tried:
\* creates holds, for each, the key string and whether the key was created
DoneCreating(req, status, creates) ==
    [pc |-> "done", req |-> req, status |-> status, creates |-> creates]

\* a request at its first store call
Start(req) ==
    CASE req.op \in {"upsert_translation", "create_translation",
                     "delete_translation_key"} ->
            [pc |-> "get_translation_key", req |-> req]
      [] req.op = "bulk_update_translations" ->
            IF req.updates = <<>> THEN Done(req, 400)
            ELSE [pc |-> "bulk_get_translation_key", req |-> req,
                  key_ids |-> {req.updates[i].translation_key_id :
                                  i \in 1..Len(req.updates)}]
      [] req.op = "bulk_import_from_csv" ->
            [pc |-> IF DictReader(req.csv_request.csv_data) = <<>>
                    THEN "import_bulk_update" ELSE "import_get_translation_key_by_key",
             req |-> req, st |-> ImportStart(EmptyDb), n |-> 1,
             existing_key |-> NotFound, creates |-> {}]
      [] req.op = "create_translation_key" ->
            [pc |-> "create_get_translation_key_by_key", req |-> req]

\* a request arrives
Begin(p) ==
    /\ procs[p].pc = "idle"
    /\ \E req \in ConcRequests : procs' = [procs EXCEPT ![p] = Start(req)]
    /\ UNCHANGED <<db, last, nreq>>

\* db.get_translation_key(key_id), the first call of the three handlers of
\* one key
get_translation_key_call(p) ==
    /\ procs[p].pc = "get_translation_key"
    /\ LET req == procs[p].req
           translation_key == db_get_translation_key(db, req.key_id)
       IN procs' = [procs EXCEPT ![p] =
              IF translation_key = NotFound THEN Done(req, 404)
              ELSE [@ EXCEPT !.pc =
                      CASE req.op = "upsert_translation" -> "upsert_translation"
                        [] req.op = "create_translation" -> "get_translation"
                        [] req.op = "delete_translation_key" ->
                              "delete_translation_key"]]
    /\ UNCHANGED <<db, last, nreq>>

\* db.get_translation(key_id, locale) of create_translation
get_translation_call(p) ==
    /\ procs[p].pc = "get_translation"
    /\ LET req == procs[p].req
           existing_translation == db_get_translation(db, req.key_id, req.locale)
       IN procs' = [procs EXCEPT ![p] =
              IF existing_translation # NotFound THEN Done(req, 400)
              ELSE [@ EXCEPT !.pc = "upsert_translation"]]
    /\ UNCHANGED <<db, last, nreq>>

\* db.upsert_translation(key_id, locale, translation_data)
upsert_translation_call(p) ==
    /\ procs[p].pc = "upsert_translation"
    /\ LET req == procs[p].req
           r == db_upsert_translation(db, req.key_id, req.locale,
                                      req.translation_data)
       IN /\ db' = r.db
          /\ procs' = [procs EXCEPT ![p] = Done(req, IF r.ok THEN 200 ELSE 500)]
    /\ UNCHANGED <<last, nreq>>

\* db.delete_translation_key(key_id)
delete_translation_key_call(p) ==
    /\ procs[p].pc = "delete_translation_key"
    /\ LET req == procs[p].req
           r == db_delete_translation_key(db, req.key_id)
       IN /\ db' = r.db
          /\ procs' = [procs EXCEPT ![p] = Done(req, IF r.value THEN 200 ELSE 500)]
    /\ UNCHANGED <<last, nreq>>

\* for key_id in key_ids: db.get_translation_key(key_id), one id at a time
bulk_get_translation_key_call(p) ==
    /\ procs[p].pc = "bulk_get_translation_key"
    /\ \E key_id \in procs[p].key_ids :
          procs' = [procs EXCEPT ![p] =
              IF db_get_translation_key(db, key_id) = NotFound
              THEN Done(procs[p].req, 404)
              ELSE [@ EXCEPT !.key_ids = @ \ {key_id},
                             !.pc = IF procs[p].key_ids = {key_id}
                                    THEN "bulk_update_translations" ELSE @]]
    /\ UNCHANGED <<db, last, nreq>>

\* db.bulk_update_translations(updates)
bulk_update_translations_call(p) ==
    /\ procs[p].pc = "bulk_update_translations"
    /\ \E mode \in ModesFor(procs[p].req.updates) :
          LET r == db_bulk_update_translations(db, procs[p].req.updates, mode)
          IN /\ db' = r.db
             /\ procs' = [procs EXCEPT ![p] =
                    Done(procs[p].req, IF r.ok /\ r.value THEN 200 ELSE 500)]
    /\ UNCHANGED <<last, nreq>>

\* the row the import of a slot is at
ImportRowAt(pr) == DictReader(pr.req.csv_request.csv_data)[pr.n]

\* a row of the import, up to db.get_translation_key_by_key(key)
import_get_translation_key_by_key_call(p) ==
    /\ procs[p].pc = "import_get_translation_key_by_key"
    /\ LET row == ImportRowAt(procs[p])
       IN procs' = [procs EXCEPT ![p] =
              IF ~RowIsValid(row) \/ RowRaises(row)
              THEN DoneCreating(procs[p].req, 400, procs[p].creates)
              ELSE [@ EXCEPT
                      !.existing_key =
                          db_get_translation_key_by_key(db, strip(row["key"])),
                      !.st = Called(@, procs[p].n + 1, "get_translation_key_by_key"),
                      !.pc = "import_write_translation_key"]]
    /\ UNCHANGED <<db, last, nreq>>

\* the rest of the row: db.create_translation_key or
\* db.update_translation_key, with the answer the lookup gave
import_write_translation_key_call(p) ==
    /\ procs[p].pc = "import_write_translation_key"
    /\ LET pr == procs[p]
           st == ImportRowFound([pr.st EXCEPT !.db = db], ImportRowAt(pr),
                                pr.n + 1, pr.req.csv_request.updated_by,
                                pr.existing_key)
           more == pr.n < Len(DictReader(pr.req.csv_request.csv_data))
           creates == IF pr.existing_key # NotFound THEN pr.creates
                      ELSE pr.creates \cup
                               {[key |-> strip(ImportRowAt(pr)["key"]),
                                 ok |-> st.created_keys > pr.st.created_keys]}
       IN /\ db' = st.db
          /\ procs' = [procs EXCEPT ![p] =
                 IF st.failed_row # 0 THEN DoneCreating(pr.req, 400, creates)
                 ELSE [pr EXCEPT
                         !.st = [st EXCEPT !.db = EmptyDb],
                         !.creates = creates,
                         !.n = @ + 1,
                         !.existing_key = NotFound,
                         !.pc = IF more THEN "import_get_translation_key_by_key"
                                ELSE "import_bulk_update"]]
    /\ UNCHANGED <<last, nreq>>

\* after the rows: db.bulk_update_translations(translation_updates)
import_bulk_update_call(p) ==
    /\ procs[p].pc = "import_bulk_update"
    /\ \E mode \in ModesFor(procs[p].st.translation_updates) :
          LET resp == ImportFinish([procs[p].st EXCEPT !.db = db], mode)
          IN /\ db' = resp.db
             /\ procs' = [procs EXCEPT ![p] =
                    DoneCreating(procs[p].req, resp.status, procs[p].creates)]
    /\ UNCHANGED <<last, nreq>>

InitConc ==
    /\ db \in SeedDbs
    /\ last = NoExchange
    /\ nreq = 0
    /\ procs = [p \in Procs |-> Idle]

NextConc ==
    \E p \in Procs :
        \/ Begin(p)
        \/ get_translation_key_call(p)
        \/ get_translation_call(p)
        \/ upsert_translation_call(p)
        \/ delete_translation_key_call(p)
        \/ bulk_get_translation_key_call(p)
        \/ bulk_update_translations_call(p)
        \/ import_get_translation_key_by_key_call(p)
        \/ import_write_translation_key_call(p)
        \/ import_bulk_update_call(p)

SpecConc == InitConc /\ [][NextConc]_vars

-----------------------------------------------------------------------------
(* Creations of keys in flight at once *)

RaceCreates ==
    {[op |-> "create_translation_key",
      translation_key |-> [key |-> k, category |-> c, description |-> None]] :
        k \in KeyStrs, c \in {<<"x">>}}

RaceImports ==
    {[op |-> "bulk_import_from_csv",
      csv_request |-> [csv_data |-> [fieldnames |-> Header3, lines |-> ls],
                       updated_by |-> "bulk_import"]] :
        ls \in {<<<<<<"a">>, <<"y">>, <<"v">>>>>>,
                <<<<<<"b">>, <<"y">>, Blank>>,
                  <<<<"a">>, <<"x">>, <<"w">>>>>>}}

RaceRequests == RaceCreates \cup RaceImports

BeginRace(p) ==
    /\ procs[p].pc = "idle"
    /\ \E req \in RaceRequests : procs' = [procs EXCEPT ![p] = Start(req)]
    /\ UNCHANGED <<db, last, nreq>>

\* db.get_translation_key_by_key(translation_key.key) of create_translation_key
create_get_translation_key_by_key_call(p) ==
    /\ procs[p].pc = "create_get_translation_key_by_key"
    /\ LET req == procs[p].req
           existing_key == db_get_translation_key_by_key(db, req.translation_key.key)
       IN procs' = [procs EXCEPT ![p] =
              IF existing_key # NotFound THEN DoneCreating(req, 400, {})
              ELSE [@ EXCEPT !.pc = "create_translation_key"]]
    /\ UNCHANGED <<db, last, nreq>>

\* db.create_translation_key(translation_key)
create_translation_key_call(p) ==
    /\ procs[p].pc = "create_translation_key"
    /\ LET req == procs[p].req
           r == db_create_translation_key(db, req.translation_key)
       IN /\ db' = r.db
          /\ procs' = [procs EXCEPT ![p] =
                 DoneCreating(req, IF r.ok THEN 200 ELSE 500,
                              {[key |-> req.translation_key.key, ok |-> r.ok]})]
    /\ UNCHANGED <<last, nreq>>

InitRace ==
    /\ db \in {EmptyDb, SeedKeyAEn}
    /\ last = NoExchange
    /\ nreq = 0
    /\ procs = [p \in Procs |-> Idle]

NextRace ==
    \E p \in Procs :
        \/ BeginRace(p)
        \/ create_get_translation_key_by_key_call(p)
        \/ create_translation_key_call(p)
        \/ import_get_translation_key_by_key_call(p)
        \/ import_write_translation_key_call(p)
        \/ import_bulk_update_call(p)

SpecRace == InitRace /\ [][NextRace]_vars

-----------------------------------------------------------------------------
(* Properties of the requests served one at a time *)

\* C1: in every state reached by requests served one after another (create
\* key, update key with or without a new key string, delete key, CSV import
\* and the translation writes), no two translation keys of the store have
\* the same key string.
C1_KeyStringsAreUnique ==
    \A r1, r2 \in db.translation_keys : r1.key = r2.key => r1.id = r2.id

\* a PUT has supplied the key string of another stored key
C1_Witness ==
    /\ last.op = "update_translation_key"
    /\ last.req.update_data.key # None
    /\ \E r1, r2 \in last.pre.translation_keys :
          /\ r1.id = last.req.key_id
          /\ r2.id # r1.id
          /\ r2.key = last.req.update_data.key

\* C2: creating a translation key whose key string the store already holds
\* fails with HTTP 400 "already exists" and leaves every record of the store
\* as it was.
C2_DuplicateCreateIsRefused ==
    (/\ last.op = "create_translation_key"
     /\ \E r \in last.pre.translation_keys : r.key = last.req.key)
    => /\ last.resp.status = 400
       /\ last.resp.detail = "Translation key already exists"
       /\ db.translation_keys = last.pre.translation_keys
       /\ db.translations = last.pre.translations

\* a create has named a stored key string, with other fields than the stored
\* ones
C2_Witness ==
    /\ last.op = "create_translation_key"
    /\ \E r \in last.pre.translation_keys :
          r.key = last.req.key /\ r.description # last.req.description
    /\ last.resp.status = 400

\* C3: a successful create returns an entity whose key, category and
\* description are those of the input and whose translations are empty, and
\* the lookups by the returned id and by the key string that follow it both
\* return an entity with that id.
C3_CreateReturnsTheInput ==
    (last.op = "create_translation_key" /\ last.resp.status = 200)
    => /\ last.resp.body.key = last.req.key
       /\ last.resp.body.category = last.req.category
       /\ last.resp.body.description = last.req.description
       /\ last.resp.body.translations = {}
       /\ db_get_translation_key(db, last.resp.body.id).id = last.resp.body.id
       /\ db_get_translation_key_by_key(db, last.req.key).id = last.resp.body.id

\* a create with a description has succeeded in a store that held a key
C3_Witness ==
    /\ last.op = "create_translation_key"
    /\ last.resp.status = 200
    /\ last.req.description # None
    /\ last.pre.translation_keys # {}

\* the translations of the store for a key and a language
Pair(d, key_id, language_code) ==
    {t \in d.translations :
        t.translation_key_id = key_id /\ t.language_code = language_code}

\* C4: after two upserts of the same (translation_key_id, language_code) the
\* store holds exactly one translation for the pair, with the value and the
\* updated_by of the second.
C4_SecondUpsertOverwrites ==
    (/\ last.op = "upsert_translation"
     /\ last.before.op = "upsert_translation"
     /\ last.resp.status = 200
     /\ last.before.resp.status = 200)
    => LET rows == Pair(db, last.req.key_id, last.req.locale)
       IN /\ Cardinality(rows) = 1
          /\ \A t \in rows :
                /\ t.value = last.req.translation_data.value
                /\ t.updated_by = last.req.translation_data.updated_by

\* two upserts of one pair have succeeded, the second with another value and
\* author, for a language that is not the one of the body
C4_Witness ==
    /\ last.op = "upsert_translation"
    /\ last.before.op = "upsert_translation"
    /\ last.resp.status = 200
    /\ last.before.resp.status = 200
    /\ last.req.translation_data.value # last.before.req.translation_data.value
    /\ last.req.translation_data.updated_by
          # last.before.req.translation_data.updated_by
    /\ last.req.locale # last.req.translation_data.language_code

\* C5: in every reachable state the store holds at most one translation per
\* (translation_key_id, language_code), whatever upserts, POST creates, bulk
\* updates and CSV imports have been served, those that name one pair twice
\* included.
C5_OneTranslationPerPair ==
    \A t1, t2 \in db.translations :
        (/\ t1.translation_key_id = t2.translation_key_id
         /\ t1.language_code = t2.language_code) => t1 = t2

\* a bulk update that names one pair twice has been applied to a store that
\* held the pair
C5_Witness ==
    /\ last.op = "bulk_update_translations"
    /\ last.resp.status = 200
    /\ BatchRepeats(last.req.updates, OnConflict)
    /\ \E i \in 1..Len(last.req.updates) :
          Pair(last.pre, last.req.updates[i].translation_key_id,
               last.req.updates[i].language_code) # {}

\* C7: after a successful delete of a translation key the key is in no
\* listing and no lookup by id finds it, and neither the translations of
\* the key nor the translation of any language can be retrieved.
C7_DeletedKeyIsGone ==
    (last.op = "delete_translation_key" /\ last.resp.status = 200)
    => /\ \A e \in db_get_translation_keys(db, None) : e.id # last.req.key_id
       /\ db_get_translation_key(db, last.req.key_id) = NotFound
       /\ db_get_translations_for_key(db, last.req.key_id) = {}
       /\ \A l \in LangCodes :
             db_get_translation(db, last.req.key_id, l) = NotFound

\* a key that had translations has been deleted
C7_Witness ==
    /\ last.op = "delete_translation_key"
    /\ last.resp.status = 200
    /\ TranslationsOf(last.pre, last.req.key_id) # {}

\* the row of a table with an id
RowOf(table, id) == CHOOSE r \in table : r.id = id

\* C15: an update of a stored translation key that the store accepts
\* overwrites the fields among key, category and description that the
\* request gives (not None) and no other: the other fields and the id are
\* as before, and so are the other keys and all the translations; an update
\* with category and description only leaves the key string as it was.
C15_UpdateOverwritesGivenFields ==
    (/\ last.op = "update_translation_key"
     /\ \E r \in last.pre.translation_keys : r.id = last.req.key_id
     /\ last.resp.status # 500)
    => /\ \E r \in db.translation_keys : r.id = last.req.key_id
       /\ LET old == RowOf(last.pre.translation_keys, last.req.key_id)
              new == RowOf(db.translation_keys, last.req.key_id)
          IN \A f \in {"key", "category", "description"} :
                new[f] = IF last.req.update_data[f] # None
                         THEN last.req.update_data[f] ELSE old[f]
       /\ {r \in db.translation_keys : r.id # last.req.key_id}
             = {r \in last.pre.translation_keys : r.id # last.req.key_id}
       /\ db.translations = last.pre.translations

\* a key with translations, in a store with another key, has been given a
\* new category and description and no key string
C15_Witness ==
    /\ last.op = "update_translation_key"
    /\ last.resp.status = 200
    /\ last.req.update_data.key = None
    /\ last.req.update_data.category # None
    /\ last.req.update_data.description # None
    /\ TranslationsOf(last.pre, last.req.key_id) # {}
    /\ \E r \in last.pre.translation_keys :
          /\ r.id = last.req.key_id
          /\ r.category # last.req.update_data.category
    /\ \E r \in last.pre.translation_keys : r.id # last.req.key_id

\* C16: an update for an id that the store does not hold is answered 404
\* and leaves the store as it was.
C16_UpdateOfMissingKeyIsNotFound ==
    (/\ last.op = "update_translation_key"
     /\ \A r \in last.pre.translation_keys : r.id # last.req.key_id)
    => /\ last.resp.status = 404
       /\ db = last.pre
       /\ db_update_translation_key(last.pre, last.req.key_id,
                                    last.req.update_data, TRUE).value = NotFound

\* an update with a key string and a category has named an id that a store
\* with keys does not hold
C16_Witness ==
    /\ last.op = "update_translation_key"
    /\ last.resp.status = 404
    /\ last.req.update_data.key # None
    /\ last.req.update_data.category # None
    /\ last.pre.translation_keys # {}
    /\ \A r \in last.pre.translation_keys : r.id # last.req.key_id

\* C17: a DELETE for an id that the store does not hold is answered 404
\* with no delete issued and leaves the store as it was; the delete of the
\* service returns True for an id whether the store holds it or not.
C17_DeleteOfMissingKeyIsNotFound ==
    /\ (/\ last.op = "delete_translation_key"
        /\ \A r \in last.pre.translation_keys : r.id # last.req.key_id)
       => /\ last.resp.status = 404
          /\ "delete_translation_key" \notin last.resp.calls
          /\ db = last.pre
    /\ \A key_id \in KeyIds : db_delete_translation_key(db, key_id).value

\* a DELETE has named an id that a store with keys and translations does
\* not hold
C17_Witness ==
    /\ last.op = "delete_translation_key"
    /\ last.resp.status = 404
    /\ last.pre.translations # {}
    /\ \A r \in last.pre.translation_keys : r.id # last.req.key_id

\* C28: a POST of a translation for a pair that the store holds a
\* translation for is answered 400 'Translation already exists for this
\* language' and leaves the store as it was; a POST for a key id that the
\* store does not hold is answered 404 and leaves the store as it was.
C28_PostRefusesAnExistingPair ==
    last.op = "create_translation"
    => /\ (\A r \in last.pre.translation_keys : r.id # last.req.key_id)
             => /\ last.resp.status = 404
                /\ db = last.pre
       /\ (/\ \E r \in last.pre.translation_keys : r.id = last.req.key_id
           /\ Pair(last.pre, last.req.key_id, last.req.locale) # {})
             => /\ last.resp.status = 400
                /\ last.resp.detail = "Translation already exists for this language"
                /\ db = last.pre

\* a POST has been refused for a pair whose stored translation has another
\* value and another author than the body
C28_Witness ==
    /\ last.op = "create_translation"
    /\ last.resp.status = 400
    /\ \E t \in Pair(db, last.req.key_id, last.req.locale) :
          /\ t.value # last.req.translation_data.value
          /\ t.updated_by # last.req.translation_data.updated_by

\* C29: a PUT or POST of a translation that succeeds leaves, for the key id
\* and the locale of the path, one translation with the value and the
\* updated_by of the body, and returns it with the locale of the path;
\* every other translation of the store, those of the language named in
\* the body included, is as it was before.
C29_ThePathLocaleIsWritten ==
    (/\ last.op \in {"upsert_translation", "create_translation"}
     /\ last.resp.status = 200)
    => /\ last.resp.body.translation_key_id = last.req.key_id
       /\ last.resp.body.language_code = last.req.locale
       /\ Pair(db, last.req.key_id, last.req.locale)
             = {[id |-> last.resp.body.id,
                 translation_key_id |-> last.req.key_id,
                 language_code |-> last.req.locale,
                 value |-> last.req.translation_data.value,
                 updated_by |-> last.req.translation_data.updated_by]}
       /\ db.translations \ Pair(db, last.req.key_id, last.req.locale)
             = last.pre.translations
                  \ Pair(last.pre, last.req.key_id, last.req.locale)

\* a PUT for the locale es whose body names en has succeeded on a store that
\* holds the en translation of the key, with another value
C29_Witness ==
    /\ last.op = "upsert_translation"
    /\ last.resp.status = 200
    /\ last.req.locale = "es"
    /\ last.req.translation_data.language_code = "en"
    /\ \E t \in Pair(last.pre, last.req.key_id, "en") :
          t.value # last.req.translation_data.value

-----------------------------------------------------------------------------
(* Properties of the CSV import *)

\* the rows that csv.DictReader gives for the request of the last exchange
LastRows == DictReader(last.req.csv_data)

\* C8: importing the same CSV text again, right after an import of it has
\* succeeded, reports created_keys = 0 and updated_keys = 0 and the same
\* translations_updated as the first import, whatever the CSV and the store
\* before the first import.
C8_ReimportReportsNoKeyChange ==
    (/\ last.op = "bulk_import_from_csv"
     /\ last.before.op = "bulk_import_from_csv"
     /\ last.before.resp.status = 200)
    => /\ last.resp.status = 200
       /\ last.resp.body.created_keys = 0
       /\ last.resp.body.updated_keys = 0
       /\ last.resp.body.translations_updated
             = last.before.resp.body.translations_updated

\* a cell that is missing or empty
IsMissing(cell) == ~Truthy(cell)

\* the lines of the text, under the header, whose key or category is missing
\* or empty
InvalidLines(csv_data) ==
    {i \in 1..Len(csv_data.lines) :
        /\ csv_data.lines[i] # <<>>
        /\ LET row == DictRow(csv_data.fieldnames, csv_data.lines[i])
           IN IsMissing(RowGet(row, "key", None))
                \/ IsMissing(RowGet(row, "category", None))}

\* C9: an import whose text has a data row with a missing or empty category
\* (or key) is answered 400; when the answer reports the required fields, it
\* names the line of such a row, the header being line 1; the keys of the
\* rows before the failing one are in the store, and no store call is made
\* for a row after it.
C9_InvalidRowIsNamedByItsLine ==
    (/\ last.op = "bulk_import_from_csv"
     /\ InvalidLines(last.req.csv_data) # {})
    => /\ last.resp.status = 400
       /\ last.resp.body.cause = "'key' and 'category' are required fields"
             => (last.resp.body.row - 1) \in InvalidLines(last.req.csv_data)
       /\ \A n \in 1..Len(LastRows) :
             n + 1 < last.resp.body.row
                => \E r \in db.translation_keys : r.key = strip(LastRows[n].key)
       /\ \A i \in 1..Len(last.resp.calls) :
             /\ last.resp.calls[i].row # 0
             /\ last.resp.calls[i].row <= last.resp.body.row

\* a cell that is blank after trimming
IsBlank(cell) == cell = None \/ strip(cell) = <<>>

\* the row numbers of the rows whose key or category is blank after trimming
BlankRows(rows) ==
    {n + 1 : n \in {m \in 1..Len(rows) :
                      IsBlank(RowGet(rows[m], "key", None))
                         \/ IsBlank(RowGet(rows[m], "category", None))}}

\* C10: an import with a data row whose key or category is blank after
\* trimming (empty or whitespace only) is answered 400 with the number of a
\* row, and no translation key is created or updated for such a row.
C10_BlankRequiredCellIsRejected ==
    (/\ last.op = "bulk_import_from_csv"
     /\ BlankRows(LastRows) # {})
    => /\ last.resp.status = 400
       /\ last.resp.body.row # 0
       /\ \A i \in 1..Len(last.resp.calls) :
             last.resp.calls[i].row \in BlankRows(LastRows)
                => last.resp.calls[i].call
                      \notin {"create_translation_key", "update_translation_key"}

\* the language cells of a row that stage a translation: those that are
\* there and not blank
StagingCells(row) ==
    {i \in 1..Len(CsvLangs) : ~IsBlank(RowGet(row, CsvLangs[i], Blank))}

RECURSIVE CountStaging(_, _)
CountStaging(rows, n) ==
    IF n > Len(rows) THEN 0
    ELSE Cardinality(StagingCells(rows[n])) + CountStaging(rows, n + 1)

\* C11: an import whose data rows all have a key and a category that are
\* not blank refuses no row, whatever their description and language cells
\* are (filled, blank, of a column the header lacks, or missing because the
\* row is shorter than the header): the key of every row is in the store
\* afterwards, and the translations staged are those of the cells that are
\* there and not blank.
C11_OptionalCellsAreOptional ==
    (/\ last.op = "bulk_import_from_csv"
     /\ BlankRows(LastRows) = {})
    => /\ last.resp.status # 400
       /\ \A n \in 1..Len(LastRows) :
             \E r \in db.translation_keys : r.key = strip(LastRows[n].key)
       /\ last.resp.status = 200
             => last.resp.body.translations_updated = CountStaging(LastRows, 1)

\* the import in progress before each row and after the last: element n + 1
\* is the import after n rows
RECURSIVE ImportTrace(_, _, _, _)
ImportTrace(st, rows, n, updated_by) ==
    IF n > Len(rows) THEN <<st>>
    ELSE <<st>> \o ImportTrace(IF st.failed_row # 0 THEN st
                               ELSE ImportRow(st, rows[n], n + 1, updated_by),
                               rows, n + 1, updated_by)

\* the trace of the import of the last exchange
LastTrace ==
    ImportTrace(ImportStart(last.pre), LastRows, 1, last.req.updated_by)

\* the stored keys that a row names, in the import before the row
Existing(before, row) ==
    {r \in before.db.translation_keys : r.key = strip(row["key"])}

\* the row is read in the import before it, passes the check of its
\* required cells and names a stored key
FindsItsKey(before, row) ==
    /\ before.failed_row = 0
    /\ RowIsValid(row)
    /\ ~RowRaises(row)
    /\ Existing(before, row) # {}

NormalDescription(row) ==
    IF Truthy(strip(RowGet(row, "description", Blank)))
    THEN strip(RowGet(row, "description", Blank)) ELSE None

Differs(before, row) ==
    \E r \in Existing(before, row) :
        \/ r.category # strip(row["category"])
        \/ r.description # NormalDescription(row)

CallsOf(calls, row_num, call) ==
    {i \in 1..Len(calls) : calls[i] = [row |-> row_num, call |-> call]}

\* what C23 says of one row, between the import before it and after it
RowKeepsItsKey(before, after, row, row_num) ==
    LET issued == CallsOf(after.calls, row_num, "update_translation_key") # {}
    IN /\ issued <=> Differs(before, row)
       /\ CallsOf(after.calls, row_num, "create_translation_key") = {}
       /\ after.created_keys = before.created_keys
       /\ after.updated_keys = before.updated_keys + (IF issued THEN 1 ELSE 0)
       /\ {[id |-> r.id, key |-> r.key] : r \in after.db.translation_keys}
              = {[id |-> r.id, key |-> r.key] : r \in before.db.translation_keys}
       /\ \A r \in before.db.translation_keys :
              r \notin Existing(before, row) => r \in after.db.translation_keys
       /\ after.db.translations = before.db.translations
       /\ \A i \in (Len(before.translation_updates) + 1)
                      ..Len(after.translation_updates) :
              \E r \in Existing(before, row) :
                  after.translation_updates[i].translation_key_id = r.id

\* C23: for every row of an import that names a stored key, an update of the
\* key is called if and only if the stored category or description differs
\* from the trimmed category or the normalized description of the row;
\* the row creates no key, leaves the ids and key strings of all stored keys
\* and every other key as they were, adds one to updated_keys exactly when
\* the update is called, and stages its translations under the id of the
\* stored key.
C23_ExistingKeyIsUpdatedWhenItDiffers ==
    last.op = "bulk_import_from_csv"
    => LET rows == LastRows
           trace == ImportTrace(ImportStart(last.pre), rows, 1,
                                last.req.updated_by)
       IN /\ \A n \in 1..Len(rows) :
                FindsItsKey(trace[n], rows[n])
                => RowKeepsItsKey(trace[n], trace[n + 1], rows[n], n + 1)
          /\ last.resp.status = 200
                => /\ last.resp.body.updated_keys
                         = trace[Len(rows) + 1].updated_keys
                   /\ last.resp.calls
                         \in {trace[Len(rows) + 1].calls,
                              Append(trace[Len(rows) + 1].calls,
                                  [row |-> 0,
                                   call |-> "bulk_update_translations"])}

\* an import has succeeded whose two rows name stored keys: the first differs
\* from its key and has updated it, the second does not; both have staged a
\* translation
C23_Witness ==
    /\ last.op = "bulk_import_from_csv"
    /\ last.resp.status = 200
    /\ Len(LastRows) = 2
    /\ FindsItsKey(LastTrace[1], LastRows[1])
    /\ FindsItsKey(LastTrace[2], LastRows[2])
    /\ Differs(LastTrace[1], LastRows[1])
    /\ ~Differs(LastTrace[2], LastRows[2])
    /\ last.resp.body.updated_keys = 1
    /\ last.resp.body.translations_updated = 2

\* the translations a store holds for a pair
PairRows(d, key_id, language_code) ==
    {t \in d.translations :
        t.translation_key_id = key_id /\ t.language_code = language_code}

\* the rows of the last import that name the stored key key_id and whose cell
\* for the language is not blank once trimmed
Writers(rows, key_id, language_code) ==
    {n \in 1..Len(rows) :
        /\ \E r \in db.translation_keys :
              r.id = key_id /\ r.key = strip(rows[n]["key"])
        /\ Truthy(strip(RowGet(rows[n], language_code, Blank)))}

\* C24: after an import that succeeded, a pair of a key and a language for
\* which no row of the key has a cell that is not blank once trimmed holds
\* what it held before the import; every other pair holds one translation,
\* whose value is the trimmed cell of such a row and whose updated_by is
\* that of the request.
C24_BlankCellsWriteNothing ==
    (last.op = "bulk_import_from_csv" /\ last.resp.status = 200)
    => LET rows == LastRows
       IN \A key_id \in KeyIds, language_code \in LangCodes :
             LET writers == Writers(rows, key_id, language_code)
             IN IF writers = {}
                THEN PairRows(db, key_id, language_code)
                        = PairRows(last.pre, key_id, language_code)
                ELSE /\ Cardinality(PairRows(db, key_id, language_code)) = 1
                     /\ \A t \in PairRows(db, key_id, language_code) :
                           /\ t.updated_by = last.req.updated_by
                           /\ \E n \in writers :
                                 t.value = strip(RowGet(rows[n], language_code,
                                                        Blank))

\* an import has succeeded on a store that held en of key a and pt of key b:
\* its row for key a has a blank en cell and its row for key b a blank pt
\* cell and a trimmed en cell, so that both translations are kept and en of
\* key b is written
C24_Witness ==
    /\ last.op = "bulk_import_from_csv"
    /\ last.resp.status = 200
    /\ last.pre = SeedTwoKeys
    /\ Writers(LastRows, 1, "en") = {} /\ Writers(LastRows, 2, "pt") = {}
    /\ Writers(LastRows, 2, "en") # {}
    /\ \E n \in 1..Len(LastRows) : strip(LastRows[n]["key"]) = <<"a">>
    /\ \E t \in PairRows(db, 2, "en") : t.value = <<"v">>

\* the positions of the bulk upsert among the service calls of the last
\* import
Upserts == {i \in 1..Len(last.resp.calls) :
               last.resp.calls[i].call = "bulk_update_translations"}

\* C25: an import calls the bulk upsert of translations at most once, as
\* its last call; it calls it exactly when no row has raised and some row
\* has staged an update; an import answered 400 leaves the translations of
\* the store as they were, whatever keys its earlier rows have created or
\* updated.
C25_OneUpsertAfterTheRows ==
    last.op = "bulk_import_from_csv"
    => LET st == ImportLoop(last.pre, last.req)
       IN /\ Cardinality(Upserts) <= 1
          /\ Upserts \subseteq {Len(last.resp.calls)}
          /\ Upserts # {}
                <=> (st.failed_row = 0 /\ st.translation_updates # <<>>)
          /\ st.failed_row # 0 <=> last.resp.status = 400
          /\ last.resp.status = 400
                => db.translations = last.pre.translations

\* an import has been answered 400 for its second row after its first row
\* has created a key and staged a translation for it
C25_Witness ==
    /\ last.op = "bulk_import_from_csv"
    /\ last.resp.status = 400
    /\ last.resp.body.row = 3
    /\ LastTrace[2].created_keys = 1
    /\ LastTrace[2].translation_updates # <<>>
    /\ Cardinality(db.translation_keys)
          = Cardinality(last.pre.translation_keys) + 1
    /\ db.translations = last.pre.translations

\* C26: in the answer of an import that succeeded, created_keys is the
\* number of keys the store has gained, none being lost, updated_keys the number of rows for
\* which the update of a key was called, translations_updated the number
\* of language cells of the rows that are not blank once trimmed, and
\* total_rows_processed the sum of created_keys and updated_keys.
C26_CountsOfTheImport ==
    (last.op = "bulk_import_from_csv" /\ last.resp.status = 200)
    => /\ last.resp.body.created_keys
             = Cardinality(db.translation_keys)
                  - Cardinality(last.pre.translation_keys)
       /\ \A r \in last.pre.translation_keys :
             \E q \in db.translation_keys : q.id = r.id
       /\ last.resp.body.updated_keys
             = Cardinality({n \in 1..Len(LastRows) :
                  CallsOf(last.resp.calls, n + 1, "update_translation_key") # {}})
       /\ last.resp.body.translations_updated = CountStaging(LastRows, 1)
       /\ last.resp.body.total_rows_processed
             = last.resp.body.created_keys + last.resp.body.updated_keys

\* an import has succeeded whose first row has created a key and whose
\* second row has updated a stored key, three cells being staged
C26_Witness ==
    /\ last.op = "bulk_import_from_csv"
    /\ last.resp.status = 200
    /\ last.resp.body.created_keys = 1
    /\ last.resp.body.updated_keys = 1
    /\ last.resp.body.translations_updated = 3
    /\ last.resp.body.total_rows_processed = 2

\* the last row of the last import that carries the key of row n
LastRowOf(n) ==
    CHOOSE m \in 1..Len(LastRows) :
        /\ strip(LastRows[m]["key"]) = strip(LastRows[n]["key"])
        /\ \A o \in 1..Len(LastRows) :
              strip(LastRows[o]["key"]) = strip(LastRows[n]["key"]) => o <= m

\* C27: after an import that succeeded, the stored key of every row has the
\* trimmed category of the last row that carries its key string, and the
\* trimmed description of that row, or no description when that cell is
\* blank.
C27_KeysTakeTheLastRow ==
    (last.op = "bulk_import_from_csv" /\ last.resp.status = 200)
    => \A n \in 1..Len(LastRows) :
          \E r \in db.translation_keys :
              /\ r.key = strip(LastRows[n]["key"])
              /\ r.category = strip(LastRows[LastRowOf(n)]["category"])
              /\ r.description = NormalDescription(LastRows[LastRowOf(n)])

-----------------------------------------------------------------------------
(* Properties of the bulk update *)

\* C12: a bulk update with a command for a translation key id that the
\* store does not hold is answered 404 with such an id, issues no write, and
\* leaves the store as it was, the commands for existing keys included.
C12_MissingKeyFailsTheBatch ==
    (/\ last.op = "bulk_update_translations"
     /\ MissingKeyIds(last.pre, last.req.updates) # {})
    => /\ last.resp.status = 404
       /\ last.resp.body.id \in MissingKeyIds(last.pre, last.req.updates)
       /\ "bulk_update_translations" \notin last.resp.calls
       /\ db = last.pre

\* a batch with a command for a stored key and a command for a missing one
\* has been answered
C12_Witness ==
    /\ last.op = "bulk_update_translations"
    /\ last.resp.status = 404
    /\ \E i, j \in 1..Len(last.req.updates) :
          /\ last.req.updates[i].translation_key_id
                \in MissingKeyIds(last.pre, last.req.updates)
          /\ \E r \in last.pre.translation_keys :
                r.id = last.req.updates[j].translation_key_id

\* the command of a batch that counts for the pair of command i: the last
\* one that names the pair
LastFor(updates, i) ==
    LET same == {j \in 1..Len(updates) :
                    /\ updates[j].translation_key_id = updates[i].translation_key_id
                    /\ updates[j].language_code = updates[i].language_code}
    IN updates[CHOOSE j \in same : \A k \in same : k <= j]

\* whether a batch names the pair of a translation
Names(updates, t) ==
    \E i \in 1..Len(updates) :
        /\ updates[i].translation_key_id = t.translation_key_id
        /\ updates[i].language_code = t.language_code

\* C13: after a successful bulk update every pair that the batch names has
\* one translation, with the value and the updated_by of the batch's command
\* for the pair; the translations of the other pairs are as before; and
\* updated_count is the number of commands.
C13_BulkUpdateWritesTheBatch ==
    (last.op = "bulk_update_translations" /\ last.resp.status = 200)
    => /\ \A i \in 1..Len(last.req.updates) :
             LET u == last.req.updates[i]
                 rows == Pair(db, u.translation_key_id, u.language_code)
             IN /\ Cardinality(rows) = 1
                /\ \A t \in rows :
                      /\ t.value = LastFor(last.req.updates, i).value
                      /\ t.updated_by = LastFor(last.req.updates, i).updated_by
       /\ \A t \in last.pre.translations :
             ~Names(last.req.updates, t) => t \in db.translations
       /\ \A t \in db.translations :
             ~Names(last.req.updates, t) => t \in last.pre.translations
       /\ db.translation_keys = last.pre.translation_keys
       /\ last.resp.body.updated_count = Len(last.req.updates)

\* a batch has overwritten a pair with another value, inserted a pair, and
\* left a translation that it does not name
C13_Witness ==
    /\ last.op = "bulk_update_translations"
    /\ last.resp.status = 200
    /\ \E i, j \in 1..Len(last.req.updates) :
          LET u == last.req.updates[i]
              v == last.req.updates[j]
          IN /\ \E t \in Pair(last.pre, u.translation_key_id, u.language_code) :
                   t.value # u.value
             /\ Pair(last.pre, v.translation_key_id, v.language_code) = {}
    /\ \E t \in last.pre.translations : ~Names(last.req.updates, t)

\* C14: a bulk update with an empty list of updates is answered 400 "No
\* updates provided" with no call of the store made, read or write.
C14_EmptyBatchIsRefused ==
    (last.op = "bulk_update_translations" /\ last.req.updates = <<>>)
    => /\ last.resp.status = 400
       /\ last.resp.detail = "No updates provided"
       /\ last.resp.calls = {}
       /\ db = last.pre

\* an empty batch has been sent to a store that holds keys and translations
C14_Witness ==
    /\ last.op = "bulk_update_translations"
    /\ last.req.updates = <<>>
    /\ last.pre.translations # {}

-----------------------------------------------------------------------------
(* Properties of the listings *)

Folded(str) == [i \in 1..Len(str) |-> Lower(str[i])]

\* term occurs in str as a run of consecutive characters, case aside
ContainsFolded(str, term) ==
    \E i \in 0..(Len(str) - Len(term)) :
        SubSeq(Folded(str), i + 1, i + Len(term)) = Folded(term)

Containing(d, term) ==
    {r \in d.translation_keys :
        \/ ContainsFolded(r.key, term)
        \/ r.description # None /\ ContainsFolded(r.description, term)}

\* C18: a search for a term answers 200 with exactly the stored keys whose
\* key or description contains the term as a substring, case aside; the
\* category plays no part, and the answer is the empty list when no key
\* matches.
C18_SearchReturnsTheKeysContainingTheTerm ==
    (last.op = "get_translation_keys" /\ Truthy(last.req.search))
    => /\ last.resp.status = 200
       /\ {e.id : e \in last.resp.body}
              = {r.id : r \in Containing(db, last.req.search)}

\* C19: the list of categories answers 200 with a sequence in strictly
\* ascending lexicographic order, so that no category occurs twice, whose
\* elements are exactly the categories of the stored keys; it is empty for
\* a store without keys.
C19_CategoriesAreDistinctAndSorted ==
    last.op = "get_categories"
    => /\ last.resp.status = 200
       /\ \A i, j \in 1..Len(last.resp.body) :
              i < j => StrLess(last.resp.body[i], last.resp.body[j])
       /\ {last.resp.body[i] : i \in 1..Len(last.resp.body)}
              = {r.category : r \in db.translation_keys}

\* the categories were listed for a store whose first key has the greater
\* of two categories
C19_Witness ==
    /\ last.op = "get_categories"
    /\ Len(last.resp.body) = 2
    /\ \E r \in db.translation_keys :
          r.id = 1 /\ r.category = last.resp.body[2]

\* C20: a listing without a search term answers 200 with exactly the stored
\* keys whose category equals the category asked for, or with every stored
\* key when no category, or an empty one, is asked for; each key comes with
\* all the translations the store holds for it.
C20_ListingFiltersByCategory ==
    (last.op = "get_translation_keys" /\ ~Truthy(last.req.search))
    => /\ last.resp.status = 200
       /\ {e.id : e \in last.resp.body}
              = {r.id : r \in {q \in db.translation_keys :
                    Truthy(last.req.category)
                        => q.category = last.req.category}}
       /\ \A e \in last.resp.body :
              e.translations
                  = {t \in db.translations : t.translation_key_id = e.id}

\* a category was asked for that one of two stored keys has, and the key
\* listed has a translation
C20_Witness ==
    /\ last.op = "get_translation_keys"
    /\ ~Truthy(last.req.search)
    /\ Truthy(last.req.category)
    /\ Cardinality(db.translation_keys) = 2
    /\ \E e \in last.resp.body :
          Cardinality(last.resp.body) = 1 /\ e.translations # {}

\* C30: a listing asked for with both a search term and a category answers
\* 200 with stored keys only, each of which has the category asked for and
\* contains the term in its key or its description, case aside.
C30_SearchWithinACategory ==
    (/\ last.op = "get_translation_keys"
     /\ Truthy(last.req.search)
     /\ Truthy(last.req.category))
    => /\ last.resp.status = 200
       /\ \A e \in last.resp.body :
             \E r \in Containing(db, last.req.search) :
                 /\ r.id = e.id
                 /\ r.category = last.req.category
                 /\ e.category = last.req.category

\* C21: the localizations of a locale answer 200 with a mapping that has,
\* for every stored key with a translation in the locale, the entry from
\* the key string to the value of that translation, and no other entry.
C21_LocalizationsOfTheLocale ==
    last.op = "get_localizations"
    => /\ last.resp.status = 200
       /\ last.resp.body.localizations
              = UNION {{<<r.key, t.value>> :
                          t \in {u \in db.translations :
                                    /\ u.translation_key_id = r.id
                                    /\ u.language_code = last.req.locale}} :
                       r \in db.translation_keys}

-----------------------------------------------------------------------------
(* Properties of the requests in flight at once *)

\* the creations request p has tried so far
Creates(p) == IF "creates" \in DOMAIN procs[p] THEN procs[p].creates ELSE {}

Tried(k) == {p \in Procs : \E c \in Creates(p) : c.key = k}

Made(k) == {p \in Procs : \E c \in Creates(p) : c.key = k /\ c.ok}

\* C22: whatever the interleaving of create-key requests and CSV imports,
\* the store never holds two keys with one key string; and once requests
\* have tried to create a key string after finding it absent, exactly one
\* of them has created it, the store holds it once, and every other one
\* has failed: the create request with 500, the import with 400.
C22_OneCreationWins ==
    /\ \A r1, r2 \in db.translation_keys : r1.key = r2.key => r1.id = r2.id
    /\ \A k \in KeyStrs :
          Tried(k) # {}
          => /\ Cardinality(Made(k)) = 1
             /\ Cardinality({r \in db.translation_keys : r.key = k}) = 1
             /\ \A p \in Tried(k) \ Made(k) :
                   /\ procs[p].pc = "done"
                   /\ procs[p].status
                          = IF procs[p].req.op = "create_translation_key"
                            THEN 500 ELSE 400

\* a create request and an import have both found key a absent and tried to
\* create it; one has failed
C22_Witness ==
    \E p, q \in Procs :
        /\ procs[p].pc = "done" /\ procs[q].pc = "done"
        /\ procs[p].req.op = "create_translation_key"
        /\ procs[q].req.op = "bulk_import_from_csv"
        /\ {p, q} \subseteq Tried(<<"a">>)
        /\ Cardinality(Made(<<"a">>)) = 1

\* C6: in every state reached by upserts, POST creates, bulk updates, CSV
\* imports and deletes of keys whose store calls interleave in any way,
\* every translation of the store references a translation key of the
\* store.
C6_TranslationsHaveTheirKey ==
    \A t \in db.translations :
        \E r \in db.translation_keys : r.id = t.translation_key_id

\* the write of an upsert has reached the store after another request
\* deleted the key that the upsert had found
C6_Witness ==
    /\ \E p \in Procs :
          /\ procs[p].pc = "done"
          /\ procs[p].req.op = "upsert_translation"
          /\ procs[p].status = 500
    /\ \E p \in Procs :
          /\ procs[p].pc = "done"
          /\ procs[p].req.op = "delete_translation_key"
          /\ procs[p].status = 200

=============================================================================
